---- MODULE Spec2Model ----
(***************************************************************************)
(* A model of utils/preprocess_data.py of the lipnet repository:           *)
(*   - preprocess(from_idx, to_idx, params), the batch driver, run by two  *)
(*     workers over consecutive index ranges (SpecPre);                    *)
(*   - Video.get_frames_mouth, the mouth cropper (SpecMouth);              *)
(*   - Video.set_data, the frame packer (SpecPack);                        *)
(*   - Align.from_file and Align.from_array / build (SpecAlignFile,        *)
(*     SpecAlignArray).                                                    *)
(* Strings that the code takes apart (paths, transcript lines) are         *)
(* sequences of tokens or characters; floating point values are exact      *)
(* rationals <<numerator, denominator>>.                                   *)
(***************************************************************************)
EXTENDS Integers, Sequences, FiniteSets, TLC

VARIABLES
    \* ---- preprocess: the file system and one frame of locals per worker
    fs_src,         \* source tree: set of [dir, base] files
    tgt_dirs,       \* directories that exist under the target root
    written,        \* images written: set of [path, idx, proc]
    from_idx, to_idx, idx, source_path, pending, filepath, frame_i,
    succ, fail, pc,
    exc,            \* per worker: the exception that left preprocess, if any
    walked,         \* per worker: the os.walk calls made, [idx, dir]
    os_errors,      \* per worker: indices at which an OSError was raised
    \* ---- Video.get_frames_mouth
    frames, m_pos, normalize_ratio, mouth_frames, m_result, m_pc,
    \* ---- Video.set_data
    p_frames, data, length, p_pc,
    \* ---- Align
    lines, in_align, label_func, absolute_max_string_len,
    align, sentence, label, padded_label, a_err, a_pc

preVars == <<fs_src, tgt_dirs, written, from_idx, to_idx, idx, source_path,
             pending, filepath, frame_i, succ, fail, pc, exc, walked, os_errors>>
mouthVars == <<frames, m_pos, normalize_ratio, mouth_frames, m_result, m_pc>>
packVars == <<p_frames, data, length, p_pc>>
alignVars == <<lines, in_align, label_func, absolute_max_string_len,
               align, sentence, label, padded_label, a_err, a_pc>>
vars == <<preVars, mouthVars, packVars, alignVars>>
othersOfPre == <<mouthVars, packVars, alignVars>>
othersOfMouth == <<preVars, packVars, alignVars>>
othersOfPack == <<preVars, mouthVars, alignVars>>
othersOfAlign == <<preVars, mouthVars, packVars>>

\* a value that may be None: None is <<>>, the value v is <<v>>
None == <<>>
Some(v) == <<v>>
Val(o) == o[1]

\* no exception was raised
NoException == "none"

(***************************************************************************)
(* Bounds of the model                                                     *)
(***************************************************************************)
\* speaker indices are 1 .. MaxIdx
MaxIdx == 2
\* frames of every decoded video
MaxFrames == 2
\* frames of a clip given to get_frames_mouth
MaxClip == 3
\* set_data: frames, height and width of a frame, channels
PackMaxN == 2
PackMaxSide == 2
PackMaxChan == 2
\* Align: characters of a transcript line, records of an align array, and
\* the largest absolute_max_string_len tried
MaxLineLen == 7
MaxAlign == 2
MaxStrLen == 3

(***************************************************************************)
(* Components that are idle in a specification of another component        *)
(***************************************************************************)
PreIdle ==
    /\ fs_src = {} /\ tgt_dirs = {} /\ written = {}
    /\ from_idx = <<>> /\ to_idx = <<>> /\ idx = <<>> /\ source_path = <<>>
    /\ pending = <<>> /\ filepath = <<>> /\ frame_i = <<>>
    /\ succ = <<>> /\ fail = <<>> /\ pc = <<>> /\ exc = <<>>
    /\ walked = <<>> /\ os_errors = <<>>

MouthIdle ==
    /\ frames = <<>> /\ m_pos = 0 /\ normalize_ratio = None
    /\ mouth_frames = <<>> /\ m_result = None /\ m_pc = "idle"

PackIdle ==
    /\ p_frames = <<>> /\ data = None /\ length = None /\ p_pc = "idle"

AlignIdle ==
    /\ lines = <<>> /\ in_align = <<>> /\ label_func = "none"
    /\ absolute_max_string_len = 0
    /\ align = None /\ sentence = None /\ label = None /\ padded_label = None
    /\ a_err = NoException /\ a_pc = "idle"

(***************************************************************************)
(* preprocess: paths                                                       *)
(***************************************************************************)
\* _params['src_path'] and _params['tgt_path'], as token strings
SourceRoot == <<"src">>
TargetRoot == <<"tgt">>

\* source_exts = '*.mpg'
source_exts == ".mpg"

\* the directories a path string names: the OS ignores repeated separators
Components(path) == SelectSeq(path, LAMBDA t : t # "/")

IsPrefix(s, t) == Len(s) <= Len(t) /\ SubSeq(t, 1, Len(s)) = s

\* os.path.join(a, b)
Join(a, b) ==
    IF a = <<>> \/ a[Len(a)] = "/" THEN a \o b ELSE a \o <<"/">> \o b

\* fnmatch.fnmatch(basename, '*.mpg'): the name ends in the extension
fnmatch(base, pattern) == base[Len(base)] = pattern

\* source_path + '/' + 's' + str(idx) + '/'
AppendSpeaker(path, i) == path \o <<"/", "s" \o ToString(i), "/">>

\* find_files(directory, pattern): os.walk descends into every subdirectory
\* and reports nothing for a directory that does not exist; each match is
\* os.path.join(root, basename)
RECURSIVE JoinAll(_, _)
JoinAll(root, dirs) ==
    IF dirs = <<>> THEN root
    ELSE JoinAll(Join(root, <<Head(dirs)>>), Tail(dirs))

find_files(directory, pattern) ==
    { Join(JoinAll(directory,
                   SubSeq(f.dir, Len(Components(directory)) + 1, Len(f.dir))),
           f.base) :
        f \in { g \in fs_src : /\ IsPrefix(Components(directory), g.dir)
                               /\ fnmatch(g.base, pattern) } }

\* os.path.splitext(filepath)[0]
SplitExtRoot(path) ==
    IF Len(path) > 0 /\ path[Len(path)] \in {".mpg", ".txt"}
    THEN SubSeq(path, 1, Len(path) - 1) ELSE path

\* s.split('/')[-1]
RECURSIVE LastSegment(_)
LastSegment(path) ==
    IF path = <<>> \/ path[Len(path)] = "/" THEN <<>>
    ELSE Append(LastSegment(SubSeq(path, 1, Len(path) - 1)), path[Len(path)])

\* target_dir = os.path.join(target_path, filepath_wo_ext)
TargetDir(fp) == Join(TargetRoot, LastSegment(SplitExtRoot(fp)))

\* "{0:03d}".format(i): decimal digits, zero-padded to width 3
RECURSIVE Digits(_)
Digits(n) == IF n < 10 THEN <<n>> ELSE Append(Digits(n \div 10), n % 10)

Format03d(n) ==
    LET d == Digits(n)
    IN  IF Len(d) >= 3 THEN d ELSE [k \in 1..(3 - Len(d)) |-> 0] \o d

\* os.path.join(target_dir, "mouth_{0:03d}.png".format(i))
ImagePath(fp, n) == Join(TargetDir(fp), <<"mouth_", Format03d(n), ".png">>)

(***************************************************************************)
(* preprocess: the source trees and the faults the model draws from        *)
(***************************************************************************)
SpeakerPath(i) == <<"src", "s" \o ToString(i)>>

\* what one speaker directory may hold
DirContents ==
    { {}, {<<"a", ".mpg">>, <<"n", ".txt">>}, {<<"a", ".mpg">>, <<"b", ".mpg">>} }

\* a speaker directory nested in the first one: src/s1/s2/c.mpg
Nested == [dir |-> <<"src", "s1", "s2">>, base |-> <<"c", ".mpg">>]

Trees ==
    { UNION { { [dir |-> SpeakerPath(i), base |-> b] : b \in c[i] } :
              i \in 1..MaxIdx } \cup n :
        c \in [1..MaxIdx -> DirContents], n \in { {}, {Nested} } }

Procs == {1, 2}

\* what a library call does: "ok", raise an OSError, or raise another
\* exception (dlib's RuntimeError for a missing predictor file, a ValueError
\* of the decoder)
DecodeOutcomes == {"ok", "OSError", "RuntimeError"}
IoOutcomes == {"ok", "OSError"}

(***************************************************************************)
(* mkdir_p(path): os.makedirs; EEXIST on a directory is swallowed, every   *)
(* other OSError is raised again                                           *)
(***************************************************************************)
mkdir_p(dirs, path, outcome) ==
    IF outcome = "OSError" THEN [dirs |-> dirs, raised |-> TRUE]
    ELSE IF path \in dirs THEN [dirs |-> dirs, raised |-> FALSE]
    ELSE [dirs |-> dirs \cup {path}, raised |-> FALSE]

(***************************************************************************)
(* preprocess: the steps of one worker p                                   *)
(***************************************************************************)
PreInit ==
    /\ fs_src \in Trees
    /\ tgt_dirs = {} /\ written = {}
    /\ \E m \in 1..(MaxIdx + 1) :
         /\ from_idx = [p \in Procs |-> IF p = 1 THEN 1 ELSE m]
         /\ to_idx = [p \in Procs |-> IF p = 1 THEN m ELSE MaxIdx + 1]
    /\ idx = from_idx
    /\ source_path = [p \in Procs |-> SourceRoot]
    /\ pending = [p \in Procs |-> {}]
    /\ filepath = [p \in Procs |-> <<>>]
    /\ frame_i = [p \in Procs |-> 0]
    /\ succ = [p \in Procs |-> {}]
    /\ fail = [p \in Procs |-> {}]
    /\ pc = [p \in Procs |-> "for_idx"]
    /\ exc = [p \in Procs |-> NoException]
    /\ walked = [p \in Procs |-> <<>>]
    /\ os_errors = [p \in Procs |-> {}]

\* the searched directory of iteration idx: line 299
NextSourcePath(path, i) == AppendSpeaker(path, i)

\* for idx in range(from_idx, to_idx): line 298-301, the walk of the directory
EnterIndex(p) ==
    /\ pc[p] = "for_idx" /\ idx[p] < to_idx[p]
    /\ LET sp == NextSourcePath(source_path[p], idx[p])
       IN  /\ source_path' = [source_path EXCEPT ![p] = sp]
           /\ pending' = [pending EXCEPT ![p] = find_files(sp, source_exts)]
           /\ walked' = [walked EXCEPT
                           ![p] = Append(@, [idx |-> idx[p], dir |-> Components(sp)])]
    /\ pc' = [pc EXCEPT ![p] = "for_file"]
    /\ UNCHANGED <<fs_src, tgt_dirs, written, from_idx, to_idx, idx, filepath,
                   frame_i, succ, fail, exc, os_errors>>
    /\ UNCHANGED othersOfPre

CaughtNothing(e) == FALSE

\* the except clause, lines 315-317: which exceptions it catches
Caught(e) == e = "OSError"

\* what the handler records for the index, and where the run goes
Handle(p, e) ==
    /\ os_errors' = [os_errors EXCEPT
                        ![p] = IF e = "OSError" THEN @ \cup {idx[p]} ELSE @]
    /\ IF Caught(e)
       THEN /\ fail' = [fail EXCEPT ![p] = @ \cup {idx[p]}]
            /\ idx' = [idx EXCEPT ![p] = @ + 1]
            /\ pc' = [pc EXCEPT ![p] = "for_idx"]
            /\ exc' = exc
       ELSE /\ pc' = [pc EXCEPT ![p] = "raised"]
            /\ exc' = [exc EXCEPT ![p] = e]
            /\ UNCHANGED <<fail, idx>>

\* Video(vtype='face', ...).from_video(filepath): lines 301-304
DecodeVideo(p) ==
    /\ pc[p] = "for_file" /\ pending[p] # {}
    /\ \E fp \in pending[p], outcome \in DecodeOutcomes :
         /\ filepath' = [filepath EXCEPT ![p] = fp]
         /\ pending' = [pending EXCEPT ![p] = @ \ {fp}]
         /\ IF outcome = "ok"
            THEN /\ pc' = [pc EXCEPT ![p] = "mkdir"]
                 /\ UNCHANGED <<fail, os_errors, idx, exc>>
            ELSE Handle(p, outcome)
    /\ UNCHANGED <<fs_src, tgt_dirs, written, from_idx, to_idx, source_path,
                   frame_i, succ, walked>>
    /\ UNCHANGED othersOfPre

\* mkdir_p(target_dir); i = 0: lines 306-310
MakeTargetDir(p) ==
    /\ pc[p] = "mkdir"
    /\ \E outcome \in IoOutcomes :
         LET r == mkdir_p(tgt_dirs, TargetDir(filepath[p]), outcome)
         IN  /\ tgt_dirs' = r.dirs
             /\ IF r.raised
                THEN Handle(p, "OSError")
                ELSE /\ pc' = [pc EXCEPT ![p] = "for_frame"]
                     /\ UNCHANGED <<fail, os_errors, idx, exc>>
    /\ frame_i' = [frame_i EXCEPT ![p] = 0]
    /\ UNCHANGED <<fs_src, written, from_idx, to_idx, source_path, pending,
                   filepath, succ, walked>>
    /\ UNCHANGED othersOfPre

\* io.imsave(os.path.join(target_dir, "mouth_{0:03d}.png".format(i)), frame);
\* i += 1: lines 311-313
SaveFrame(p) ==
    /\ pc[p] = "for_frame"
    /\ \E outcome \in IoOutcomes :
         IF outcome = "ok"
         THEN /\ written' = written \cup
                     { [path |-> ImagePath(filepath[p], frame_i[p]),
                        idx |-> idx[p], proc |-> p] }
              /\ frame_i' = [frame_i EXCEPT ![p] = @ + 1]
              /\ pc' = [pc EXCEPT ![p] =
                          IF frame_i[p] + 1 < MaxFrames THEN "for_frame" ELSE "for_file"]
              /\ UNCHANGED <<fail, os_errors, idx, exc>>
         ELSE /\ Handle(p, "OSError")
              /\ UNCHANGED <<written, frame_i>>
    /\ UNCHANGED <<fs_src, tgt_dirs, from_idx, to_idx, source_path, pending,
                   filepath, succ, walked>>
    /\ UNCHANGED othersOfPre

SuccAfterDropped(s, i) == s

\* the indices the end of the try block adds to succ: line 314
SuccAfter(s, i) == s \cup {i}

\* succ.add(idx): line 314, when the generator is exhausted
FinishIndex(p) ==
    /\ pc[p] = "for_file" /\ pending[p] = {}
    /\ succ' = [succ EXCEPT
                  ![p] = SuccAfter(@, idx[p])]
    /\ idx' = [idx EXCEPT ![p] = @ + 1]
    /\ pc' = [pc EXCEPT ![p] = "for_idx"]
    /\ UNCHANGED <<fs_src, tgt_dirs, written, from_idx, to_idx, source_path,
                   pending, filepath, frame_i, fail, exc, walked, os_errors>>
    /\ UNCHANGED othersOfPre

\* return (succ, fail): line 318
Return(p) ==
    /\ pc[p] = "for_idx" /\ idx[p] >= to_idx[p]
    /\ pc' = [pc EXCEPT ![p] = "done"]
    /\ UNCHANGED <<fs_src, tgt_dirs, written, from_idx, to_idx, idx,
                   source_path, pending, filepath, frame_i, succ, fail, exc,
                   walked, os_errors>>
    /\ UNCHANGED othersOfPre

PreNext ==
    \E p \in Procs :
        \/ EnterIndex(p)
        \/ DecodeVideo(p)
        \/ MakeTargetDir(p)
        \/ SaveFrame(p)
        \/ FinishIndex(p)
        \/ Return(p)

PreStart == PreInit /\ MouthIdle /\ PackIdle /\ AlignIdle

SpecPre == PreStart /\ [][PreNext]_vars

(***************************************************************************)
(* preprocess: the claims                                                  *)
(***************************************************************************)
Range(p) == from_idx[p] .. (to_idx[p] - 1)

\* the speaker directory of index i holds a file matching '*.mpg'
HasVideo(i) ==
    \E f \in fs_src : f.dir = SpeakerPath(i) /\ fnmatch(f.base, source_exts)

\* C1: every index's '*.mpg' search walks exactly source_root/s{idx}/,
\* whatever was processed before it.
C1_SearchesOwnDirectory ==
    \A p \in Procs : \A k \in 1..Len(walked[p]) :
        walked[p][k].dir = SpeakerPath(walked[p][k].idx)

\* C2: no output path is written for two different indices.
C2_DistinctOutputPaths ==
    \A w1 \in written, w2 \in written :
        w1.path = w2.path => w1.idx = w2.idx

\* C3: an OSError raised while index k is processed never leaves the run;
\* k is in failed and not in succeeded, the loop has moved past k, and a
\* run that returns has classified every index of its range.
C3_OSErrorScopedToIndex ==
    \A p \in Procs :
        /\ exc[p] # "OSError"
        /\ \A k \in os_errors[p] :
              k \in fail[p] /\ k \notin succ[p] /\ idx[p] > k
        /\ pc[p] = "done" => /\ succ[p] \cup fail[p] = Range(p)
                             /\ succ[p] \cap fail[p] = {}

C3_Witness ==
    \E p \in Procs :
        /\ pc[p] = "done"
        /\ \E k \in os_errors[p], j \in succ[p] :
              j > k /\ \E w \in written : w.proc = p /\ w.idx = j

\* C4 as claimed: a run without OS-level error returns failed = {} and
\* succeeded = the indices whose directory holds a '*.mpg' file.
C4_SucceededAreThoseWithVideo ==
    \A p \in Procs :
        (pc[p] = "done" /\ os_errors[p] = {}) =>
            /\ fail[p] = {}
            /\ succ[p] = { i \in Range(p) : HasVideo(i) }

\* C4 amended: a run without OS-level error returns failed = {} and
\* succeeded = every index of the range, with or without matching files.
C4_SucceededIsWholeRange ==
    \A p \in Procs :
        (pc[p] = "done" /\ os_errors[p] = {}) =>
            /\ fail[p] = {}
            /\ succ[p] = Range(p)

C4_Witness ==
    \E p \in Procs :
        /\ pc[p] = "done" /\ os_errors[p] = {}
        /\ \E i \in Range(p), j \in Range(p) :
              /\ HasVideo(i) /\ ~HasVideo(j)
              /\ \E w \in written : w.proc = p /\ w.idx = i
              /\ succ[p] = {i, j} /\ fail[p] = {}

(***************************************************************************)
(* Video.get_frames_mouth(detector, predictor, frames)                     *)
(***************************************************************************)
mouth_width == 100
mouth_height == 50
\* horizontal_pad = 0.19, in hundredths
horizontal_pad == 19
\* "if i < 48: continue": the index of the first mouth landmark
MouthStart == 48

Max(a, b) == IF a >= b THEN a ELSE b
Min(a, b) == IF a <= b THEN a ELSE b

\* int(n / d) for d > 0: Python's int() truncates toward zero
TruncDiv(n, d) == IF n >= 0 THEN n \div d ELSE -((-n) \div d)

RECURSIVE SumOf(_, _)
SumOf(pts, c) == IF pts = <<>> THEN 0 ELSE Head(pts)[c] + SumOf(Tail(pts), c)

MinX(pts) == CHOOSE m \in {pts[k][1] : k \in 1..Len(pts)} :
                 \A k \in 1..Len(pts) : m <= pts[k][1]
MaxX(pts) == CHOOSE m \in {pts[k][1] : k \in 1..Len(pts)} :
                 \A k \in 1..Len(pts) : m >= pts[k][1]

\* dets = detector(frame, 1); for det in dets: shape = predictor(frame, det):
\* the shape of the last detection, None without one (lines 135-140)
Locate(frame) ==
    IF frame.dets = <<>> THEN None ELSE Some(frame.dets[Len(frame.dets)])

\* the parts with i >= 48 (lines 142-148)
MouthPoints(shape) == SubSeq(shape, MouthStart + 1, Len(shape))

\* mouth_centroid = np.mean(np_mouth_points[:, -2:], axis=0), lines 150:
\* the sums of x and of y over n points
Centroid(pts) == [sx |-> SumOf(pts, 1), sy |-> SumOf(pts, 2), n |-> Len(pts)]

\* lines 153-156: mouth_width / (max(x) * 1.19 - min(x) * 0.81), a rational
NormalizeRatio(pts) ==
    <<mouth_width * 100,
      MaxX(pts) * (100 + horizontal_pad) - MinX(pts) * (100 - horizontal_pad)>>

RatioAlwaysFresh(current, pts) == NormalizeRatio(pts)

\* "if normalize_ratio is None": lines 152-156
RatioFor(current, pts) ==
    IF current = None THEN NormalizeRatio(pts) ELSE Val(current)

\* new_img_shape, lines 158-159
NewImgShape(shape, r) ==
    <<TruncDiv(shape[1] * r[1], r[2]), TruncDiv(shape[2] * r[1], r[2])>>

\* int(mouth_centroid_norm[c] -/+ size / 2), lines 162-167; sign is -1 or 1
Edge(sum, n, r, size, sign) ==
    TruncDiv(2 * sum * r[1] + sign * size * n * r[2], 2 * n * r[2])

CropBox(c, r) ==
    [l |-> Edge(c.sx, c.n, r, mouth_width, -1),
     r |-> Edge(c.sx, c.n, r, mouth_width, 1),
     t |-> Edge(c.sy, c.n, r, mouth_height, -1),
     b |-> Edge(c.sy, c.n, r, mouth_height, 1)]

\* the length of a[lo:hi] for an axis of length len: numpy wraps a negative
\* bound once and clips
SliceLen(lo, hi, len) ==
    LET norm(i) == IF i < 0 THEN Max(i + len, 0) ELSE Min(i, len)
    IN  Max(0, norm(hi) - norm(lo))

\* resized_img[mouth_t:mouth_b, mouth_l:mouth_r], lines 160-169
MouthCrop(pos, frame, r) ==
    LET pts == MouthPoints(Val(Locate(frame)))
        resized == NewImgShape(frame.shape, r)
        box == CropBox(Centroid(pts), r)
    IN  [kind |-> "crop", of |-> pos, ratio |-> r, resized |-> resized, box |-> box,
         shape |-> <<SliceLen(box.t, box.b, resized[1]),
                     SliceLen(box.l, box.r, resized[2])>>]

\* the landmark sets the predictor may return: 48 face points, then the mouth
FacePoints == [k \in 1..MouthStart |-> <<0, 0>>]
ShapeA == FacePoints \o <<<<20, 50>>, <<80, 50>>>>
ShapeB == FacePoints \o <<<<30, 40>>, <<50, 66>>, <<70, 50>>>>
ShapeC == FacePoints \o <<<<45, 20>>, <<95, 30>>>>
Shapes == {ShapeA, ShapeB, ShapeC}

\* the frames of a clip: a raster of H x W with the shapes of its detections
\* (none, one face, or two faces in either order)
FrameShapes == { <<100, 120>>, <<60, 60>> }
Detections ==
    { <<>>, <<ShapeA, ShapeB>>, <<ShapeB, ShapeA>> } \cup { <<s>> : s \in Shapes }
ClipFrames ==
    { [kind |-> "frame", shape |-> sh, dets |-> d] :
        sh \in FrameShapes, d \in Detections }

\* the clips of n frames
Clips(n) == [1..n -> ClipFrames]

MouthInit ==
    /\ \E n \in 0..MaxClip : frames \in Clips(n)
    /\ m_pos = 0
    /\ normalize_ratio = None
    /\ mouth_frames = <<>>
    /\ m_result = None
    /\ m_pc = "for_frame"

AbortResultPartial(fs, mf) == mf

\* "return frames", line 141
AbortResult(fs, mf) == fs

\* one iteration with a detected face: lines 134-171
CropFrame ==
    /\ m_pc = "for_frame" /\ m_pos < Len(frames)
    /\ Locate(frames[m_pos + 1]) # None
    /\ LET frame == frames[m_pos + 1]
           r == RatioFor(normalize_ratio, MouthPoints(Val(Locate(frame))))
       IN  /\ normalize_ratio' = Some(r)
           /\ mouth_frames' = Append(mouth_frames, MouthCrop(m_pos + 1, frame, r))
    /\ m_pos' = m_pos + 1
    /\ UNCHANGED <<frames, m_result, m_pc>>
    /\ UNCHANGED othersOfMouth

\* one iteration without a detected face: lines 134-141
ReturnAsIs ==
    /\ m_pc = "for_frame" /\ m_pos < Len(frames)
    /\ Locate(frames[m_pos + 1]) = None
    /\ m_result' = Some(AbortResult(frames, mouth_frames))
    /\ m_pc' = "done"
    /\ UNCHANGED <<frames, m_pos, normalize_ratio, mouth_frames>>
    /\ UNCHANGED othersOfMouth

\* "return mouth_frames", line 172
ReturnMouthFrames ==
    /\ m_pc = "for_frame" /\ m_pos = Len(frames)
    /\ m_result' = Some(mouth_frames)
    /\ m_pc' = "done"
    /\ UNCHANGED <<frames, m_pos, normalize_ratio, mouth_frames>>
    /\ UNCHANGED othersOfMouth

MouthNext == CropFrame \/ ReturnAsIs \/ ReturnMouthFrames

MouthStartState == PreIdle /\ MouthInit /\ PackIdle /\ AlignIdle

SpecMouth == MouthStartState /\ [][MouthNext]_vars

(***************************************************************************)
(* get_frames_mouth: the claims                                            *)
(***************************************************************************)
Detected(k) == Locate(frames[k]) # None

OnlyFirstDetected ==
    /\ Len(frames) = 3
    /\ Detected(1) /\ ~Detected(2) /\ ~Detected(3)

FirstRatio == NormalizeRatio(MouthPoints(Val(Locate(frames[1]))))

\* C5 as claimed: a 3-frame clip with a face in frame 0 only yields 3 frames
\* cropped to 50 x 100 with the normalize_ratio of frame 0.
C5_ThreeCropsFromFirstRatio ==
    (m_pc = "done" /\ OnlyFirstDetected) =>
        /\ Len(Val(m_result)) = 3
        /\ \A k \in 1..3 :
             /\ Val(m_result)[k].kind = "crop"
             /\ Val(m_result)[k].shape = <<mouth_height, mouth_width>>
             /\ Val(m_result)[k].ratio = FirstRatio

\* C5 amended: such a clip is returned as its 3 input frames, unchanged;
\* the crop of frame 0 is dropped.
C5_ThreeOriginalFrames ==
    (m_pc = "done" /\ OnlyFirstDetected) =>
        /\ Len(Val(m_result)) = 3
        /\ Val(m_result) = frames
        /\ \A k \in 1..3 : Val(m_result)[k].kind = "frame"

C5_Witness ==
    /\ m_pc = "done" /\ OnlyFirstDetected
    /\ Len(mouth_frames) = 1 /\ normalize_ratio = Some(FirstRatio)
    /\ mouth_frames[1].shape = <<mouth_height, mouth_width>>

\* C6: a clip with a frame that has no detection is returned as the input
\* sequence itself; otherwise one crop per frame is returned, in order.
C6_AllOrNothing ==
    m_pc = "done" =>
        IF \E k \in 1..Len(frames) : ~Detected(k)
        THEN Val(m_result) = frames
        ELSE /\ Len(Val(m_result)) = Len(frames)
             /\ \A k \in 1..Len(frames) :
                  Val(m_result)[k].kind = "crop" /\ Val(m_result)[k].of = k

C6_Witness ==
    /\ m_pc = "done"
    /\ Len(frames) = 3 /\ Detected(1) /\ Detected(2) /\ ~Detected(3)
    /\ Len(mouth_frames) = 2
    /\ m_result = Some(frames)

\* C10: normalize_ratio is None until the first crop, then the ratio of the
\* first frame's mouth points for the rest of the call; every crop was
\* resized and had its own centroid scaled by that value.
C10_RatioWriteOnce ==
    /\ (mouth_frames = <<>>) <=> (normalize_ratio = None)
    /\ mouth_frames # <<>> => normalize_ratio = Some(FirstRatio)
    /\ \A k \in 1..Len(mouth_frames) :
         LET pts == MouthPoints(Val(Locate(frames[k])))
         IN  /\ mouth_frames[k].ratio = FirstRatio
             /\ mouth_frames[k].resized = NewImgShape(frames[k].shape, FirstRatio)
             /\ mouth_frames[k].box = CropBox(Centroid(pts), FirstRatio)

C10_Witness ==
    /\ Len(mouth_frames) >= 2
    /\ LET p1 == MouthPoints(Val(Locate(frames[1])))
           p2 == MouthPoints(Val(Locate(frames[2])))
       IN  /\ NormalizeRatio(p2) # NormalizeRatio(p1)
           /\ Centroid(p2) # Centroid(p1)
           /\ mouth_frames[2].box # mouth_frames[1].box
           /\ mouth_frames[2].ratio = mouth_frames[1].ratio

(***************************************************************************)
(* Video.set_data(frames): numpy arrays are [shape, at], at a function     *)
(* from index tuples (1-based) to elements; axes are numbered from 0 as in *)
(* numpy                                                                   *)
(***************************************************************************)
RECURSIVE Indices(_)
Indices(shape) ==
    IF shape = <<>> THEN { <<>> }
    ELSE { <<i>> \o rest : i \in 1..Head(shape), rest \in Indices(Tail(shape)) }

SwapAt(seq, i, j) ==
    [k \in 1..Len(seq) |-> IF k = i THEN seq[j] ELSE IF k = j THEN seq[i] ELSE seq[k]]

\* a.swapaxes(i, j)
swapaxes(a, i, j) ==
    LET sh == SwapAt(a.shape, i + 1, j + 1)
    IN  [shape |-> sh,
         at |-> [ix \in Indices(sh) |-> a.at[SwapAt(ix, i + 1, j + 1)]]]

\* np.array([a]): a new leading axis of length 1
Wrap(a) ==
    LET sh == <<1>> \o a.shape
    IN  [shape |-> sh, at |-> [ix \in Indices(sh) |-> a.at[Tail(ix)]]]

\* np.array(list) of equally shaped arrays: a new leading axis
Stack(list) ==
    LET sh == <<Len(list)>> \o list[1].shape
    IN  [shape |-> sh, at |-> [ix \in Indices(sh) |-> list[ix[1]].at[Tail(ix)]]]

\* np.rollaxis(a, axis): the axis moves to the front
rollaxis(a, axis) ==
    LET n == Len(a.shape)
        back(ix) == [k \in 1..n |-> IF k <= axis THEN ix[k + 1]
                                    ELSE IF k = axis + 1 THEN ix[1] ELSE ix[k]]
        sh == [k \in 1..n |-> IF k = 1 THEN a.shape[axis + 1]
                              ELSE IF k <= axis + 1 THEN a.shape[k - 1]
                              ELSE a.shape[k]]
    IN  [shape |-> sh, at |-> [ix \in Indices(sh) |-> a.at[back(ix)]]]

\* the body of the loop, lines 188-192
PrepareFrame(frame) ==
    LET f == swapaxes(frame, 0, 1)
    IN  IF Len(f.shape) < 3
        THEN swapaxes(swapaxes(Wrap(f), 0, 2), 0, 1)
        ELSE f

ToNCDHWNoSwap(a) == rollaxis(a, 3)

\* lines 195-196: T x W x H x C to C x T x W x H to C x T x H x W
ToNCDHW(a) == swapaxes(rollaxis(a, 3), 2, 3)

\* lines 186-196
PackFrames(fs) == ToNCDHW(Stack([t \in 1..Len(fs) |-> PrepareFrame(fs[t])]))

\* the pixel of frame t at (h, w, c) in the pattern pat
Pixel(pat, t, h, w, c) ==
    CASE pat = "position" -> t * 1000 + h * 100 + w * 10 + c
      [] pat = "rows" -> h
      [] pat = "mixed" -> (t + h * w + 2 * c) % 256
      [] OTHER -> 0

Patterns == {"position", "rows", "mixed", "black"}

\* a frame H x W (chan = 0: no channel axis) or H x W x chan
RasterFrame(pat, t, h, w, chan) ==
    LET sh == IF chan = 0 THEN <<h, w>> ELSE <<h, w, chan>>
    IN  [shape |-> sh,
         at |-> [ix \in Indices(sh) |->
                   Pixel(pat, t, ix[1], ix[2], IF chan = 0 THEN 1 ELSE ix[3])]]

\* n frames of h x w (x chan) in the pattern pat
PackInput(pat, n, h, w, chan) == [t \in 1..n |-> RasterFrame(pat, t, h, w, chan)]

PackInit ==
    /\ \E n \in 1..PackMaxN, h \in 1..PackMaxSide, w \in 1..PackMaxSide,
          chan \in 0..PackMaxChan, pat \in Patterns :
            p_frames = PackInput(pat, n, h, w, chan)
    /\ data = None
    /\ length = None
    /\ p_pc = "call"

\* set_data(frames), lines 182-199
SetData ==
    /\ p_pc = "call"
    /\ data' = Some(PackFrames(p_frames))
    /\ length' = Some(Len(p_frames))
    /\ p_pc' = "done"
    /\ UNCHANGED p_frames
    /\ UNCHANGED othersOfPack

PackNext == SetData

PackStart == PreIdle /\ MouthIdle /\ PackInit /\ AlignIdle

SpecPack == PackStart /\ [][PackNext]_vars

(***************************************************************************)
(* set_data: the claims                                                    *)
(***************************************************************************)
HasChannelAxis == Len(p_frames[1].shape) = 3

\* C8: for N frames H x W or H x W x C, data has shape (C or 1, N, H, W),
\* data[c][t][h][w] is frame t's pixel at (h, w, c), and length is N.
C8_PackIsAxisReordering ==
    p_pc = "done" =>
        LET n == Len(p_frames)
            h == p_frames[1].shape[1]
            w == p_frames[1].shape[2]
            chan == IF HasChannelAxis THEN p_frames[1].shape[3] ELSE 1
        IN  /\ Val(data).shape = <<chan, n, h, w>>
            /\ DOMAIN Val(data).at = Indices(<<chan, n, h, w>>)
            /\ \A c \in 1..chan, t \in 1..n, y \in 1..h, x \in 1..w :
                 Val(data).at[<<c, t, y, x>>] =
                     IF HasChannelAxis THEN p_frames[t].at[<<y, x, c>>]
                     ELSE p_frames[t].at[<<y, x>>]
            /\ length = Some(n)

C8_Witness ==
    /\ p_pc = "done"
    /\ Len(p_frames) = 2 /\ ~HasChannelAxis
    /\ p_frames[1].shape = <<1, 2>>
    /\ p_frames[1].at[<<1, 1>>] # p_frames[1].at[<<1, 2>>]
    /\ Val(data).shape = <<1, 2, 1, 2>>

(***************************************************************************)
(* Align: strings are sequences of characters                              *)
(***************************************************************************)
\* the default of absolute_max_string_len
DefaultMaxStringLen == 32

DigitChars == <<"0", "1", "2", "3", "4", "5", "6", "7", "8", "9">>
IsDigit(ch) == \E d \in 1..10 : DigitChars[d] = ch
DigitValue(ch) == (CHOOSE d \in 1..10 : DigitChars[d] = ch) - 1

\* x.strip(): leading and trailing blanks removed
RECURSIVE StripStr(_)
StripStr(str) ==
    IF str = <<>> THEN str
    ELSE IF Head(str) = " " THEN StripStr(Tail(str))
    ELSE IF str[Len(str)] = " " THEN StripStr(SubSeq(str, 1, Len(str) - 1))
    ELSE str

\* x.split(" "): a field between every two blanks, empty ones included
RECURSIVE SplitStr(_)
SplitStr(str) ==
    IF \A k \in 1..Len(str) : str[k] # " " THEN <<str>>
    ELSE LET k == CHOOSE j \in 1..Len(str) :
                      str[j] = " " /\ \A i \in 1..(j - 1) : str[i] # " "
         IN  <<SubSeq(str, 1, k - 1)>> \o SplitStr(SubSeq(str, k + 1, Len(str)))

\* x.strip().split(" ")
Fields(line) == SplitStr(StripStr(line))

\* whether int(field) returns, and what
IsInt(field) == field # <<>> /\ \A k \in 1..Len(field) : IsDigit(field[k])

RECURSIVE IntOf(_)
IntOf(field) ==
    IF field = <<>> THEN 0
    ELSE 10 * IntOf(SubSeq(field, 1, Len(field) - 1)) + DigitValue(field[Len(field)])

\* (int(y[0])/1000, int(y[1])/1000, y[2]), evaluated left to right: the
\* exception it raises; times are rationals
ParseError(y) ==
    IF ~IsInt(y[1]) THEN "ValueError"
    ELSE IF Len(y) < 2 THEN "IndexError"
    ELSE IF ~IsInt(y[2]) THEN "ValueError"
    ELSE IF Len(y) < 3 THEN "IndexError"
    ELSE NoException

ParseRecord(y) == <<<<IntOf(y[1]), 1000>>, <<IntOf(y[2]), 1000>>, y[3]>>

\* lines 220-221: the exception of the first line that raises one
RECURSIVE FirstError(_)
FirstError(ls) ==
    IF ls = <<>> THEN NoException
    ELSE IF ParseError(Fields(Head(ls))) # NoException THEN ParseError(Fields(Head(ls)))
    ELSE FirstError(Tail(ls))

ParseLines(ls) == [k \in 1..Len(ls) |-> ParseRecord(Fields(ls[k]))]

\* ['sp', 'sil']
Fillers == { <<"s", "p">>, <<"s", "i", "l">> }

\* Align.strip(align, items)
strip(al, items) == SelectSeq(al, LAMBDA sub : sub[3] \notin items)

\* " ".join(words)
RECURSIVE JoinWords(_)
JoinWords(words) ==
    IF words = <<>> THEN <<>>
    ELSE IF Len(words) = 1 THEN words[1]
    ELSE words[1] \o <<" ">> \o JoinWords(Tail(words))

\* Align.get_sentence(align)
get_sentence(al) ==
    JoinWords([k \in 1..Len(strip(al, Fillers)) |-> strip(al, Fillers)[k][3]])

\* the label functions a caller may pass: one index per character, or one
\* per word
LabelFuncs == {"chars", "words"}

CharCode(ch) ==
    CASE ch = " " -> 0 [] ch = "s" -> 19 [] ch = "p" -> 16 [] ch = "i" -> 9
      [] ch = "l" -> 12 [] ch = "h" -> 8 [] ch = "a" -> 1 [] OTHER -> 27

\* Align.get_label(sentence): self.label_func(sentence)
get_label(f, sent) ==
    IF f = "chars" THEN [k \in 1..Len(sent) |-> CharCode(sent[k])]
    ELSE IF sent = <<>> THEN <<>>
    ELSE [k \in 1..Len(SplitStr(sent)) |-> Len(SplitStr(sent)[k])]

PaddedToMax(lab, max) == Some(lab \o [k \in 1..max |-> -1])

\* Align.get_padded_label(label): None when np.ones is given a negative
\* length and raises ValueError
get_padded_label(lab, max) ==
    IF max - Len(lab) < 0 THEN None
    ELSE Some(lab \o [k \in 1..(max - Len(lab)) |-> -1])

\* Align.build(align), lines 232-239
Build(al) ==
    LET sent == get_sentence(al)
        lab == get_label(label_func, sent)
        padded == get_padded_label(lab, absolute_max_string_len)
    IN  /\ align' = Some(strip(al, Fillers))
        /\ sentence' = Some(sent)
        /\ label' = Some(lab)
        /\ padded_label' = padded
        /\ a_err' = IF padded = None THEN "ValueError" ELSE NoException
        /\ a_pc' = IF padded = None THEN "raised" ELSE "done"

\* ---- from_file
Alphabet == {"1", "s", "p", " "}
\* the lines of n characters
Lines(n) == [1..n -> Alphabet]
GoodLine == <<"1", " ", "1", "1", " ", "s">>
\* the transcripts with the line l: alone, or after a well-formed line
Transcripts(l) == { <<l>>, <<GoodLine, l>> }

AlignFileInit ==
    /\ \E n \in 0..MaxLineLen : \E l \in Lines(n) : lines \in Transcripts(l)
    /\ in_align = <<>>
    /\ label_func = "chars"
    /\ absolute_max_string_len = DefaultMaxStringLen
    /\ align = None /\ sentence = None /\ label = None /\ padded_label = None
    /\ a_err = NoException
    /\ a_pc = "from_file"

\* Align.from_file(path), lines 214-223
FromFile ==
    /\ a_pc = "from_file"
    /\ IF FirstError(lines) # NoException
       THEN /\ a_err' = FirstError(lines)
            /\ a_pc' = "raised"
            /\ UNCHANGED <<align, sentence, label, padded_label>>
       ELSE Build(ParseLines(lines))
    /\ UNCHANGED <<lines, in_align, label_func, absolute_max_string_len>>
    /\ UNCHANGED othersOfAlign

AlignFileNext == FromFile

AlignFileStart == PreIdle /\ MouthIdle /\ PackIdle /\ AlignFileInit

SpecAlignFile == AlignFileStart /\ [][AlignFileNext]_vars

\* ---- from_array
Tokens == { <<"s", "p">>, <<"s", "i", "l">>, <<"h", "i">>, <<"a">> }
AlignRecords == { <<<<0, 1000>>, <<1000, 1000>>, tok>> : tok \in Tokens }
\* the align arrays of n records
AlignArrays(n) == [1..n -> AlignRecords]

AlignArrayInit ==
    /\ lines = <<>>
    /\ \E n \in 0..MaxAlign : in_align \in AlignArrays(n)
    /\ label_func \in LabelFuncs
    /\ absolute_max_string_len \in 0..MaxStrLen
    /\ align = None /\ sentence = None /\ label = None /\ padded_label = None
    /\ a_err = NoException
    /\ a_pc = "from_array"

\* Align.from_array(align), lines 225-230
FromArray ==
    /\ a_pc = "from_array"
    /\ Build(in_align)
    /\ UNCHANGED <<lines, in_align, label_func, absolute_max_string_len>>
    /\ UNCHANGED othersOfAlign

AlignArrayNext == FromArray

AlignArrayStart == PreIdle /\ MouthIdle /\ PackIdle /\ AlignArrayInit

SpecAlignArray == AlignArrayStart /\ [][AlignArrayNext]_vars

(***************************************************************************)
(* Align: the claims                                                       *)
(***************************************************************************)
\* the fields of a line split at runs of blanks
WhitespaceFields(line) == SelectSeq(Fields(line), LAMBDA f : f # <<>>)

\* a line that does not split into exactly 3 fields, or whose start or end
\* field is not an integer
Malformed(line) ==
    LET y == WhitespaceFields(line)
    IN  \/ Len(y) # 3
        \/ ~IsInt(y[1])
        \/ ~IsInt(y[2])

\* C7: from_file on a transcript with a malformed line raises and sets none
\* of align, sentence, label, padded_label.
C7_MalformedLineRaises ==
    (a_pc # "from_file" /\ \E k \in 1..Len(lines) : Malformed(lines[k])) =>
        /\ a_err # NoException
        /\ align = None /\ sentence = None /\ label = None /\ padded_label = None

\* C9: a label no longer than absolute_max_string_len is padded to exactly
\* that length: the label, then -1 in every remaining place.
C9_PaddedLabel ==
    (a_pc # "from_array" /\ Len(Val(label)) <= absolute_max_string_len) =>
        /\ padded_label # None
        /\ Len(Val(padded_label)) = absolute_max_string_len
        /\ SubSeq(Val(padded_label), 1, Len(Val(label))) = Val(label)
        /\ \A k \in (Len(Val(label)) + 1)..absolute_max_string_len :
             Val(padded_label)[k] = -1

C9_Witness ==
    /\ a_pc = "done"
    /\ Len(Val(label)) = 2 /\ absolute_max_string_len = 3
    /\ Val(padded_label) = Val(label) \o <<-1>>

====
